---- MODULE Spec2Model ----
(***************************************************************************)
(* Model of the SAM2 graph nodes of nodes.py: prompt construction, the     *)
(* image-segmentation node, and the video session (add points, propagate). *)
(* numpy arrays are records [shape, data]; Python None is the record None. *)
(***************************************************************************)
EXTENDS Integers, Sequences, FiniteSets, TLC

VARIABLES handle, placement, heap, held, refs, call, ops, res

vars == <<handle, placement, heap, held, refs, call, ops, res>>

(***************************************************************************)
(* Bounds of the model.                                                    *)
(***************************************************************************)
MaxPts == 3
MaxFrames == 2
MaxStates == 2
MaxAdds == 2
MaxProposals == 2
MaxDetections == 2

\* pixel coordinates used by the prompts, and the pixels of a frame
Points == {[x |-> 1, y |-> 2], [x |-> 3, y |-> 4]}
Pixels == {"p0", "p1"}

None == [none |-> TRUE, v |-> <<>>]
Some(v) == [none |-> FALSE, v |-> v]

SeqsUpTo(S, lo, hi) == UNION {[1..n -> S] : n \in lo..hi}

(***************************************************************************)
(* numpy, as far as the nodes use it.                                      *)
(***************************************************************************)
ErrArr == [shape |-> <<-1>>, data |-> <<>>]
IsErr(a) == a.shape = <<-1>>
ndim(a) == Len(a.shape)

\* np.array of a list of (x, y) tuples: (n, 2), and (0,) for the empty list
np_array(list) ==
    IF Len(list) = 0 THEN [shape |-> <<0>>, data |-> <<>>]
    ELSE [shape |-> <<Len(list), 2>>, data |-> list]

\* np.atleast_2d: a 1-D array of shape (k,) becomes (1, k)
np_atleast_2d(a) ==
    IF ndim(a) = 1 THEN [shape |-> <<1>> \o a.shape, data |-> <<a.data>>] ELSE a

\* np.array([np.atleast_2d(c) for c in list]): (n, 1, 2)
np_array_groups(list) ==
    [shape |-> <<Len(list), 1, 2>>, data |-> [i \in 1..Len(list) |-> <<list[i]>>]]

\* a[:, np.newaxis, :] on an (n, 2) array
np_newaxis1(a) ==
    [shape |-> <<a.shape[1], 1, a.shape[2]>>,
     data |-> [i \in 1..Len(a.data) |-> <<a.data[i]>>]]

\* np.concatenate((a, b), axis=0): same ndim, same trailing dimensions
np_concatenate0(a, b) ==
    IF ndim(a) # ndim(b) THEN ErrArr
    ELSE IF Tail(a.shape) # Tail(b.shape) THEN ErrArr
    ELSE [shape |-> <<a.shape[1] + b.shape[1]>> \o Tail(a.shape),
          data |-> a.data \o b.data]

\* np.concatenate((a, b), axis=1) of 2-D or 3-D arrays
np_concatenate1(a, b) ==
    IF ndim(a) # ndim(b) \/ ndim(a) < 2 THEN ErrArr
    ELSE IF a.shape[1] # b.shape[1] \/ Tail(Tail(a.shape)) # Tail(Tail(b.shape))
         THEN ErrArr
    ELSE [shape |-> <<a.shape[1], a.shape[2] + b.shape[2]>> \o Tail(Tail(a.shape)),
          data |-> [i \in 1..a.shape[1] |-> a.data[i] \o b.data[i]]]

\* np.ones(n), np.zeros(n), and a 1-D array of n copies of v
np_full(n, v) == [shape |-> <<n>>, data |-> [i \in 1..n |-> v]]
\* np.stack of n arrays np.array([v]): (n, 1)
np_stack_rows(n, v) == [shape |-> <<n, 1>>, data |-> [i \in 1..n |-> <<v>>]]
\* len(a)
np_len(a) == a.shape[1]

(***************************************************************************)
(* Prompt construction.                                                    *)
(***************************************************************************)
\* [(coord['x'], coord['y']) for coord in json.loads(...)]
ParseCoords(js) == [i \in 1..Len(js) |-> <<js[i].x, js[i].y>>]

NoArr == [shape |-> <<>>, data |-> <<>>]
PromptErr(e) == [status |-> e, coords |-> NoArr, labels |-> NoArr]

\* the mutant of PadNegative: pads with the last negative group
RECURSIVE PadNegativeLast(_, _)
PadNegativeLast(neg, n) ==
    IF neg.shape[1] >= n THEN neg
    ELSE PadNegativeLast(np_concatenate0(neg,
                        [shape |-> <<1>> \o Tail(neg.shape),
                         data |-> <<neg.data[Len(neg.data)]>>]), n)

\* while negative.shape[0] < positive.shape[0]: append negative[:1, :, :]
RECURSIVE PadNegative(_, _)
PadNegative(neg, n) ==
    IF neg.shape[1] >= n THEN neg
    ELSE PadNegative(np_concatenate0(neg,
                        [shape |-> <<1>> \o Tail(neg.shape), data |-> <<neg.data[1]>>]), n)

\* the mutant of AssertCount: the assertion never fails
AssertCountNever(neg, pos) == TRUE

\* assert negative_point_coords.shape[0] <= positive_point_coords.shape[0]
AssertCount(neg, pos) == neg.shape[1] <= pos.shape[1]

\* Sam2Segmentation.segment, "handle point coordinates": final_coords or the error raised
SegCoords(P, N, individual_objects) ==
    LET pos == IF ~individual_objects THEN np_atleast_2d(np_array(ParseCoords(P)))
               ELSE np_array_groups(ParseCoords(P))
    IN IF N.none THEN [status |-> "ok", coords |-> pos]
       ELSE LET neg == np_array(ParseCoords(N.v))
            IN IF individual_objects
               THEN IF ~AssertCount(neg, pos)
                    THEN [status |-> "AssertionError", coords |-> NoArr]
                    ELSE LET neg3 == IF ndim(neg) = 2 THEN np_newaxis1(neg) ELSE neg
                         IN IF neg3.shape[1] < pos.shape[1] /\ ndim(neg3) # 3
                            THEN [status |-> "IndexError", coords |-> NoArr]
                            ELSE LET c == np_concatenate1(pos, PadNegative(neg3, pos.shape[1]))
                                 IN IF IsErr(c) THEN [status |-> "ValueError", coords |-> NoArr]
                                    ELSE [status |-> "ok", coords |-> c]
               ELSE LET c == np_concatenate0(pos, neg)
                    IN IF IsErr(c) THEN [status |-> "ValueError", coords |-> NoArr]
                       ELSE [status |-> "ok", coords |-> c]

\* Sam2Segmentation.segment, "handle labels": final_labels
SegLabels(P, N, individual_objects) ==
    LET pos == IF ~individual_objects THEN np_atleast_2d(np_array(ParseCoords(P)))
               ELSE np_array_groups(ParseCoords(P))
        plab == IF ~individual_objects THEN np_full(np_len(pos), 1)
                ELSE np_stack_rows(np_len(pos), 1)
    IN IF N.none THEN plab
       ELSE IF ~individual_objects
            THEN np_concatenate0(plab, np_full(np_len(np_array(ParseCoords(N.v))), 0))
            ELSE np_concatenate1(plab, np_stack_rows(np_len(pos), 0))

\* Sam2Segmentation.segment, lines 233-303: the prompt handed to the model
SegPrompt(P, N, individual_objects) ==
    LET c == SegCoords(P, N, individual_objects)
    IN IF c.status # "ok" THEN PromptErr(c.status)
       ELSE [status |-> "ok", coords |-> c.coords,
             labels |-> SegLabels(P, N, individual_objects)]

\* Sam2VideoSegmentationAddPoints.segment, lines 468-501: combined_coords, combined_labels
AddPointsPrompt(P, N) ==
    LET pos == np_atleast_2d(np_array(ParseCoords(P)))
        plab == np_full(Len(P), 1)
        neg == IF N.none THEN [shape |-> <<0, 2>>, data |-> <<>>]
               ELSE np_atleast_2d(np_array(ParseCoords(N.v)))
        nlab == IF N.none THEN np_full(0, 0) ELSE np_full(Len(N.v), 0)
        c == np_concatenate0(pos, neg)
    IN IF IsErr(c) THEN PromptErr("ValueError")
       ELSE [status |-> "ok", coords |-> c, labels |-> np_concatenate0(plab, nlab)]

(***************************************************************************)
(* State of the program before any node has run.  The handle is the dict   *)
(* built by DownloadAndLoadSAM2Model.loadmodel; no node holds a state.      *)
(***************************************************************************)
Nodes == {"seg", "ap1", "ap2"}
NoCall == [op |-> "none"]
NoRes == [status |-> "none"]

Handle(segmentor, version, composite) ==
    [segmentor |-> segmentor, version |-> version, dtype |-> "fp16",
     device |-> "cuda", composite |-> composite]

InitWith(h) ==
    /\ handle = h
    /\ placement \in {"compute", "offload"}
    /\ heap = <<>>
    /\ held = [n \in Nodes |-> 0]
    /\ refs = {}
    /\ call = NoCall
    /\ ops = <<>>
    /\ res = NoRes

(***************************************************************************)
(* The session interface of the SAM2 video predictor (sam2/, not part of   *)
(* nodes.py).  An inference state holds the frame count of its video and    *)
(* the prompts accumulated so far; heap[sid] is the state with identity sid.*)
(***************************************************************************)
ObjIds == {0, 1}
NoRef == [inference_state |-> 0, num_frames |-> 0]
Event(f, sid, dev) == [f |-> f, sid |-> sid, dev |-> dev]

\* model.init_state(video, H, W): a fresh state, no prompts
init_state(h, B) == Append(h, [num_frames |-> B, prompts |-> <<>>])

\* model.reset_state(state): no prompts or masks survive
reset_state(h, sid) == [h EXCEPT ![sid].prompts = <<>>]

PromptRec(frame_idx, obj_id, points, labels, box) ==
    [frame_idx |-> frame_idx, obj_id |-> obj_id, points |-> points,
     labels |-> labels, box |-> box]

\* a frame index outside [0, num_frames) is rejected
FrameOk(h, sid, frame_idx) == frame_idx >= 0 /\ frame_idx < h[sid].num_frames

\* model.add_new_points(...): the prompt is accumulated in the state
add_new_points(h, sid, p) == [h EXCEPT ![sid].prompts = Append(@, p)]

\* model.add_new_points_or_box(..., clear_old_points=True): replaces the
\* prompts of the same object on the same frame
add_new_points_or_box(h, sid, p) ==
    [h EXCEPT ![sid].prompts =
        Append(SelectSeq(@, LAMBDA q : ~(q.frame_idx = p.frame_idx /\ q.obj_id = p.obj_id)), p)]

\* the object ids tracked by a state, in the order they were first prompted
TrackedSet(st) == {st.prompts[i].obj_id : i \in 1..Len(st.prompts)}
FirstAt(st, o) == CHOOSE i \in 1..Len(st.prompts) :
                     /\ st.prompts[i].obj_id = o
                     /\ \A j \in 1..(i - 1) : st.prompts[j].obj_id # o
obj_ids(st) ==
    LET S == TrackedSet(st)
    IN CHOOSE s \in [1..Cardinality(S) -> S] :
          \A i, j \in 1..Cardinality(S) : i < j => FirstAt(st, s[i]) < FirstAt(st, s[j])

\* model.propagate_in_video(state): one (frame_idx, obj_ids, mask_logits) per
\* frame of the video, in frame order; lg[f][o] are the logits the network
\* produces for object o on frame f
propagate_in_video(st, lg) ==
    [k \in 1..st.num_frames |->
        [frame_idx |-> k - 1, obj_ids |-> obj_ids(st),
         logits |-> [i \in 1..Len(obj_ids(st)) |-> lg[k - 1][obj_ids(st)[i]]]]]

\* the logits of one object on one frame, per pixel
LogitMaps == {[p \in Pixels |-> IF p = "p0" THEN 1 ELSE -1],
              [p \in Pixels |-> IF p = "p0" THEN 0 ELSE 1],
              [p \in Pixels |-> IF p = "p0" THEN -1 ELSE 0]}

(***************************************************************************)
(* Device placement of the weights.                                        *)
(***************************************************************************)
\* model.to(d) with no handler: raises on a handle that wraps a composite object
ToBare(h, plc, d) ==
    IF h.composite
    THEN [ok |-> FALSE, placement |-> plc, ops |-> <<Event("model.to", 0, "raise")>>]
    ELSE [ok |-> TRUE, placement |-> d, ops |-> <<Event("model.to", 0, d)>>]

\* the mutant of ToGuarded: the failure is swallowed and nothing is retried
ToGuardedNoRetry(h, plc, d) ==
    IF h.composite
    THEN [ok |-> TRUE, placement |-> plc, ops |-> <<Event("model.to", 0, "raise")>>]
    ELSE [ok |-> TRUE, placement |-> d, ops |-> <<Event("model.to", 0, d)>>]

\* try: model.to(d)  except: model.model.to(d)
ToGuarded(h, plc, d) ==
    IF h.composite
    THEN [ok |-> TRUE, placement |-> d,
          ops |-> <<Event("model.to", 0, "raise"), Event("model.model.to", 0, d)>>]
    ELSE [ok |-> TRUE, placement |-> d, ops |-> <<Event("model.to", 0, d)>>]

(***************************************************************************)
(* Sam2VideoSegmentationAddPoints.segment                                  *)
(***************************************************************************)
\* a node runs when the node before it has returned
Idle == call = NoCall

Out(plc, hp, hd, rf, o, r) ==
    [placement |-> plc, heap |-> hp, held |-> hd, refs |-> rf, ops |-> o, res |-> r]

\* the dict returned for chaining: it has no 'version' key
ChainHandle(h) == [segmentor |-> h.segmentor, dtype |-> h.dtype, device |-> h.device,
                   composite |-> h.composite]
NoHandle == [segmentor |-> "", dtype |-> "", device |-> "", composite |-> FALSE]
AddRes(status, ref, hnd) == [status |-> status, ref |-> ref, handle |-> hnd]

\* the mutant of ResetIfHeld: the held state is not reset
ResetIfHeldSkip(h, sid) == [heap |-> h, ops |-> <<>>]

\* if hasattr(self, 'inference_state'): model.reset_state(self.inference_state)
ResetIfHeld(h, sid) ==
    IF sid # 0 THEN [heap |-> reset_state(h, sid), ops |-> <<Event("reset_state", sid, "")>>]
    ELSE [heap |-> h, ops |-> <<>>]

\* the mutant of UsePrev: the previous state is reset before it is used
UsePrevReset(h, prev) ==
    [heap |-> reset_state(h, prev.inference_state), sid |-> prev.inference_state,
     B |-> prev.num_frames, ops |-> <<Event("reset_state", prev.inference_state, "")>>]

\* B = prev_inference_state['num_frames']; self.inference_state = prev[...]
UsePrev(h, prev) ==
    [heap |-> h, sid |-> prev.inference_state, B |-> prev.num_frames, ops |-> <<>>]

AddPointsRun(node, P, N, frame_index, object_index, image, prev) ==
    LET pr == AddPointsPrompt(P, N)
        fail(e, plc, hp, hd, o) == Out(plc, hp, hd, refs, o, AddRes(e, NoRef, NoHandle))
        to == ToBare(handle, placement, "compute")
    IN IF handle.segmentor # "video" THEN fail("ValueError", placement, heap, held, <<>>)
       ELSE IF pr.status # "ok" THEN fail(pr.status, placement, heap, held, <<>>)
       ELSE IF ~to.ok THEN fail("AttributeError", placement, heap, held, to.ops)
       ELSE LET rs == ResetIfHeld(heap, held[node])
                up == UsePrev(heap, prev.v)
                ini == init_state(rs.heap, image.v)
                \* the state the prompt goes to, and what was done to get it
                hp == IF prev.none THEN ini ELSE up.heap
                sid == IF prev.none THEN Len(ini) ELSE up.sid
                B == IF prev.none THEN image.v ELSE up.B
                o == IF prev.none
                     THEN to.ops \o rs.ops \o <<Event("init_state", Len(ini), "")>>
                     ELSE to.ops \o up.ops
                hd == [held EXCEPT ![node] = sid]
                p == PromptRec(frame_index, object_index, pr.coords, pr.labels, <<>>)
            IN IF prev.none /\ image.none
               THEN \* image.permute raises, after the reset
                    fail("AttributeError", to.placement, rs.heap, held, to.ops \o rs.ops)
               ELSE IF ~FrameOk(hp, sid, frame_index)
               THEN fail("IndexError", to.placement, hp, hd, o)
               ELSE Out(to.placement, add_new_points(hp, sid, p), hd,
                        refs \cup {[inference_state |-> sid, num_frames |-> B]},
                        Append(o, Event("add_new_points", sid, "")),
                        AddRes("ok", [inference_state |-> sid, num_frames |-> B],
                               ChainHandle(handle)))

Apply(o) ==
    /\ placement' = o.placement
    /\ heap' = o.heap
    /\ held' = o.held
    /\ refs' = o.refs
    /\ ops' = o.ops
    /\ res' = o.res
    /\ UNCHANGED handle

\* the model explores runs with at most MaxStates states allocated and at most
\* MaxAdds prompts held by the states together
RECURSIVE TotalPrompts(_, _)
TotalPrompts(h, i) == IF i > Len(h) THEN 0 ELSE Len(h[i].prompts) + TotalPrompts(h, i + 1)
WithinBounds(h) == Len(h) <= MaxStates /\ TotalPrompts(h, 1) <= MaxAdds

\* the optional image input, by the number of frames of the video
Images(Bs) == {None} \cup {Some(B) : B \in Bs}
Prevs == {None} \cup {Some(r) : r \in refs}

\* one call of the node, its inputs drawn from the given sets
Sam2VideoSegmentationAddPoints_segment(NodeSet, PosSet, NegSet, FrameSet, ImageSet) ==
    /\ Idle
    /\ \E node \in NodeSet, P \in PosSet, N \in NegSet,
       frame_index \in FrameSet, object_index \in ObjIds,
       image \in ImageSet, prev \in Prevs :
        LET o == AddPointsRun(node, P, N, frame_index, object_index, image, prev)
        IN /\ WithinBounds(o.heap)
           /\ call' = [op |-> "add_points", node |-> node, P |-> P, N |-> N,
                       frame_index |-> frame_index, object_index |-> object_index,
                       image |-> image, prev |-> prev]
           /\ Apply(o)

(***************************************************************************)
(* Sam2VideoSegmentation.segment                                           *)
(***************************************************************************)
\* (out_mask_logits[i] > 0.0)
Threshold(lm) == [p \in Pixels |-> lm[p] > 0]

\* np.zeros((H, W)): a 2-D array; np.logical_or with a (1, H, W) mask gives (1, H, W)
ZeroMask == [nd |-> 2, px |-> [p \in Pixels |-> FALSE]]
logical_or(c, m) == [nd |-> 3, px |-> [p \in Pixels |-> c.px[p] \/ m[p]]]

\* for i, out_obj_id in enumerate(out_obj_ids): combined_mask = logical_or(combined_mask, out_mask)
RECURSIVE CombineFrom(_, _, _)
CombineFrom(c, logits, i) ==
    IF i > Len(logits) THEN c
    ELSE CombineFrom(logical_or(c, Threshold(logits[i])), logits, i + 1)

\* a Python dict as its items in insertion order; d[k] = v
DictSet(d, k, v) ==
    IF \E i \in 1..Len(d) : d[i].key = k
    THEN [i \in 1..Len(d) |-> IF d[i].key = k THEN [key |-> k, val |-> v] ELSE d[i]]
    ELSE Append(d, [key |-> k, val |-> v])

\* the loop over the generator: video_segments[out_frame_idx] = combined_mask
RECURSIVE VideoSegments(_, _, _)
VideoSegments(d, gen, k) ==
    IF k > Len(gen) THEN d
    ELSE VideoSegments(DictSet(d, gen[k].frame_idx, CombineFrom(ZeroMask, gen[k].logits, 1)),
                       gen, k + 1)

\* the mutant of MaskList: the last frame is not collected
MaskListShort(d) == [i \in 1..(Len(d) - 1) |-> d[i].val]

\* for frame_idx, combined_mask in video_segments.items(): mask_list.append(combined_mask)
MaskList(d) == [i \in 1..Len(d) |-> d[i].val]

\* torch.from_numpy(mask).permute(1, 2, 0)[:, :, 0] for each mask, torch.stack, .float():
\* permute needs a 3-D array, stack a non-empty list
ToTensors(mask_list) ==
    IF Len(mask_list) = 0 \/ \E i \in 1..Len(mask_list) : mask_list[i].nd # 3
    THEN [status |-> "RuntimeError", masks |-> <<>>]
    ELSE [status |-> "ok",
          masks |-> [i \in 1..Len(mask_list) |->
                        [p \in Pixels |-> IF mask_list[i].px[p] THEN 1 ELSE 0]]]

\* the mutant of SessionForPropagate: the reset of lines 568-569 is live
SessionForPropagateReset(h, sid) == reset_state(h, sid)

\* lines 568-569 are commented out: the state is propagated as it is
SessionForPropagate(h, sid) == h

\* the graph executor takes the outputs of the node that ran; the next node can run
Return ==
    /\ call # NoCall
    /\ call' = NoCall
    /\ ops' = <<>>
    /\ res' = NoRes
    /\ UNCHANGED <<handle, placement, heap, held, refs>>

\* the result of the call: the masks returned, with the frame keys of
\* video_segments and what the generator yielded, kept for the properties
VideoRes(status, masks, frames, gen) ==
    [status |-> status, masks |-> masks, frames |-> frames, gen |-> gen]

\* the keys of a dict, in insertion order
DictKeys(d) == [i \in 1..Len(d) |-> d[i].key]

VideoSegmentRun(ref, keep_model_loaded, lg) ==
    LET sid == ref.inference_state
        B == heap[sid].num_frames
        to == ToBare(handle, placement, "compute")
        hp == SessionForPropagate(heap, sid)
        gen == propagate_in_video(hp[sid], lg)
        video_segments == VideoSegments(<<>>, gen, 1)
        mask_list == MaskList(video_segments)
        off == IF keep_model_loaded
               THEN [ok |-> TRUE, placement |-> to.placement, ops |-> <<>>]
               ELSE ToBare(handle, to.placement, "offload")
        o == to.ops \o <<Event("propagate_in_video", sid, "")>> \o off.ops
        t == ToTensors(mask_list)
    IN IF handle.segmentor # "video"
       THEN Out(placement, heap, held, refs, <<>>, VideoRes("ValueError", <<>>, <<>>, <<>>))
       ELSE IF ~to.ok
       THEN Out(placement, heap, held, refs, to.ops,
                VideoRes("AttributeError", <<>>, <<>>, <<>>))
       ELSE Out(off.placement, hp, held, refs, o,
                VideoRes(t.status, t.masks, DictKeys(video_segments), gen))

\* one call of the node; Maps are the logits the network may produce
Sam2VideoSegmentation_segment(Maps) ==
    /\ Idle
    /\ \E r \in refs, keep_model_loaded \in BOOLEAN :
        \E lg \in [0..(heap[r.inference_state].num_frames - 1) ->
                      [TrackedSet(heap[r.inference_state]) -> Maps]] :
            /\ call' = [op |-> "propagate", ref |-> r,
                        keep_model_loaded |-> keep_model_loaded]
            /\ Apply(VideoSegmentRun(r, keep_model_loaded, lg))

(***************************************************************************)
(* Sam2Segmentation.segment                                                *)
(***************************************************************************)
SegRes(status, masks, predicts) == [status |-> status, masks |-> masks, predicts |-> predicts]

\* final_box: the whole batch with individual_objects, else the array left in
\* boxes_np by the loop, i.e. the boxes of the last image
FinalBox(bboxes, individual_objects) ==
    IF individual_objects
    THEN [shape |-> <<Len(bboxes), Len(bboxes[1]), 4>>, data |-> bboxes]
    ELSE [shape |-> <<Len(bboxes[Len(bboxes)]), 4>>, data |-> bboxes[Len(bboxes)]]

\* lines 319-324: the box handed to predict for image i (0-based); final_box[i]
\* is evaluated for a batch, then input_box is set to final_box
InputBox(bboxes, individual_objects, B, i) ==
    IF bboxes.none THEN [status |-> "ok", box |-> NoArr]
    ELSE LET fb == FinalBox(bboxes.v, individual_objects)
         IN IF B > 1 /\ ~(i < fb.shape[1]) THEN [status |-> "IndexError", box |-> NoArr]
            ELSE [status |-> "ok", box |-> fb]

\* the mutant of BestIndex: the first candidate, whatever its score
BestIndexFirst(scores) == 1

\* np.argsort(scores)[::-1][0]: the index of the highest score (the last such
\* index when scores tie)
BestIndex(scores) ==
    CHOOSE i \in 1..Len(scores) :
        /\ \A j \in 1..Len(scores) : scores[j] <= scores[i]
        /\ \A j \in (i + 1)..Len(scores) : scores[j] < scores[i]

\* for out_mask in out_masks: combined_mask = np.logical_or(combined_mask, out_mask)
RECURSIVE OrMasks(_, _, _)
OrMasks(c, masks, i) ==
    IF i > Len(masks) THEN c ELSE OrMasks(logical_or(c, masks[i]), masks, i + 1)

\* lines 334-347: the mask kept for one image from predict's output
ImageMask(out) ==
    IF out.nd = 3 THEN [nd |-> 3, px |-> out.masks[BestIndex(out.scores)]]
    ELSE OrMasks(ZeroMask, out.masks, 1)

\* the prompt of the call: None for the points when no positive coordinates are given
SegPromptOf(in) ==
    IF in.P.none THEN [status |-> "ok", coords |-> NoArr, labels |-> NoArr]
    ELSE SegPrompt(in.P.v, in.N, in.individual_objects)

\* lines 313-349: the loop over the images; stops at the first error
RECURSIVE ImageLoop(_, _, _, _, _, _)
ImageLoop(in, pr, po, dev, i, acc) ==
    IF i >= in.B THEN acc
    ELSE LET ib == InputBox(in.bboxes, in.individual_objects, in.B, i)
             call_ == [i |-> i, dev |-> dev, point_coords |-> pr.coords,
                       point_labels |-> pr.labels, box |-> ib.box,
                       multimask_output |-> ~in.individual_objects,
                       mask_input |-> in.mask, out |-> po[i + 1]]
         IN IF ib.status # "ok" THEN [acc EXCEPT !.status = ib.status]
            ELSE ImageLoop(in, pr, po, dev, i + 1,
                           [status |-> "ok",
                            mask_list |-> Append(acc.mask_list, ImageMask(po[i + 1])),
                            predicts |-> Append(acc.predicts, call_)])

\* lines 365-385: the prompts added to the fresh state in video mode
RECURSIVE AddGroups(_, _, _, _)
AddGroups(h, sid, pr, i) ==
    IF i > pr.coords.shape[1] THEN h
    ELSE AddGroups(add_new_points_or_box(h, sid,
                      PromptRec(0, i - 1, pr.coords.data[i], pr.labels.data[i], <<>>)),
                   sid, pr, i + 1)

\* lines 389-410: the masks collected from the generator in video mode
RECURSIVE VideoMaskList(_, _, _, _)
VideoMaskList(gen, individual_objects, k, acc) ==
    IF k > Len(gen) THEN acc
    ELSE VideoMaskList(gen, individual_objects, k + 1,
            IF individual_objects
            THEN Append(acc, CombineFrom(ZeroMask, gen[k].logits, 1))
            ELSE acc \o [i \in 1..Len(gen[k].logits) |->
                            [nd |-> 3, px |-> Threshold(gen[k].logits[i])]])

\* the mutant of ModeCheck: an automaskgenerator handle is not rejected
ModeCheckNoAuto(h, bboxes) ==
    IF h.segmentor = "video" /\ ~bboxes.none /\ h.version # "2.1" THEN "ValueError"
    ELSE "ok"

\* lines 219-225: the modes and versions the node rejects before it does anything
ModeCheck(h, bboxes) ==
    IF h.segmentor = "automaskgenerator" THEN "ValueError"
    ELSE IF h.segmentor = "video" /\ ~bboxes.none /\ h.version # "2.1" THEN "ValueError"
    ELSE "ok"

SegRun(in, po, lg) ==
    LET pr == SegPromptOf(in)
        to == ToGuarded(handle, placement, "compute")
        off(plc) == IF in.keep_model_loaded
                    THEN [ok |-> TRUE, placement |-> plc, ops |-> <<>>]
                    ELSE ToGuarded(handle, plc, "offload")
        fail(e) == Out(placement, heap, held, refs, <<>>, SegRes(e, <<>>, <<>>))
        \* single_image
        loop == ImageLoop(in, pr, po, to.placement, 0,
                          [status |-> "ok", mask_list |-> <<>>, predicts |-> <<>>])
        predict_ops == [k \in 1..Len(loop.predicts) |-> Event("predict", k - 1, to.placement)]
        t1 == ToTensors(loop.mask_list)
        \* video
        rs == ResetIfHeld(heap, held["seg"])
        ini == init_state(rs.heap, in.B)
        sid == Len(ini)
        hd == [held EXCEPT !["seg"] = sid]
        o2 == to.ops \o rs.ops \o <<Event("init_state", sid, "")>>
        input_box == IF in.bboxes.none THEN <<>> ELSE in.bboxes.v[1]
        added == IF in.individual_objects THEN AddGroups(ini, sid, pr, 1)
                 ELSE add_new_points_or_box(ini, sid,
                         PromptRec(0, 1, pr.coords, pr.labels, input_box))
        gen == propagate_in_video(added[sid], lg)
        t2 == ToTensors(VideoMaskList(gen, in.individual_objects, 1, <<>>))
        o3 == o2 \o <<Event("add_new_points_or_box", sid, ""),
                      Event("propagate_in_video", sid, "")>>
    IN IF ~in.enabled
       THEN Out(placement, heap, held, refs, <<>>,
                SegRes("ok", <<[p \in Pixels |-> 0]>>, <<>>))
       ELSE IF ModeCheck(handle, in.bboxes) # "ok" THEN fail(ModeCheck(handle, in.bboxes))
       ELSE IF pr.status # "ok" THEN fail(pr.status)
       ELSE IF handle.segmentor = "single_image"
       THEN IF loop.status # "ok"
            THEN Out(to.placement, heap, held, refs, to.ops \o predict_ops,
                     SegRes(loop.status, <<>>, loop.predicts))
            ELSE Out(off(to.placement).placement, heap, held, refs,
                     to.ops \o predict_ops \o off(to.placement).ops,
                     SegRes(t1.status, t1.masks, loop.predicts))
       ELSE IF handle.segmentor # "video"
       THEN \* neither branch runs: mask_list is empty and torch.stack raises
            Out(off(to.placement).placement, heap, held, refs,
                to.ops \o off(to.placement).ops,
                SegRes(ToTensors(<<>>).status, <<>>, <<>>))
       ELSE IF in.individual_objects /\ ~in.bboxes.none
       THEN Out(to.placement, ini, hd, refs, o2, SegRes("ValueError", <<>>, <<>>))
       ELSE IF in.individual_objects /\ in.P.none
       THEN \* final_coords was never assigned
            Out(to.placement, ini, hd, refs, o2, SegRes("UnboundLocalError", <<>>, <<>>))
       ELSE IF in.P.none /\ in.bboxes.none
       THEN \* the predictor rejects a prompt with neither points nor box
            Out(to.placement, ini, hd, refs, o2, SegRes("ValueError", <<>>, <<>>))
       ELSE Out(off(to.placement).placement, added, hd, refs,
                o3 \o off(to.placement).ops, SegRes(t2.status, t2.masks, <<>>))

\* the object ids the call prompts in video mode
SegObjs(in) ==
    IF ~in.individual_objects THEN {1}
    ELSE IF in.P.none THEN {} ELSE 0..(Len(in.P.v) - 1)

\* one call of the node: its inputs from InSet, the outputs of predict from
\* PredSet, the logits of the video predictor from Maps
Sam2Segmentation_segment(InSet, PredSet, Maps) ==
    /\ Idle
    /\ \E in \in InSet :
        \E po \in (IF handle.segmentor = "single_image" /\ in.enabled
                   THEN [1..in.B -> PredSet] ELSE {<<>>}),
           lg \in (IF handle.segmentor = "video" /\ in.enabled
                   THEN [0..(in.B - 1) -> [SegObjs(in) -> Maps]] ELSE {<<>>}) :
            LET o == SegRun(in, po, lg)
            IN /\ WithinBounds(o.heap)
               /\ call' = [op |-> "segment", in |-> in]
               /\ Apply(o)

Boxes == {<<0, 0, 1, 1>>, <<1, 1, 2, 2>>}
\* one list of boxes per image
BoxBatches(B) == {None} \cup {Some(b) : b \in [1..B -> {<<bx>> : bx \in Boxes}]}

SegInputs(Bs, Ps, Ns, Masks) ==
    UNION {[B : {B}, keep_model_loaded : BOOLEAN, P : Ps, N : Ns,
            individual_objects : BOOLEAN, bboxes : BoxBatches(B), mask : Masks,
            enabled : BOOLEAN] : B \in Bs}

M10 == [p \in Pixels |-> p = "p0"]
M01 == [p \in Pixels |-> p = "p1"]
\* outputs of predict: scored candidates (a 3-D array), or one mask per object (4-D)
PredOuts == {[nd |-> 3, masks |-> <<M10, M01>>, scores |-> <<2, 9>>],
             [nd |-> 3, masks |-> <<M10, M01, M10>>, scores |-> <<9, 5, 2>>],
             [nd |-> 3, masks |-> <<M01, M10>>, scores |-> <<5, 5>>],
             [nd |-> 4, masks |-> <<M10, M01>>, scores |-> <<9, 9>>]}

(***************************************************************************)
(* The video session: two add-points nodes and the propagate node.  *)
(***************************************************************************)
OneMap == {[p \in Pixels |-> IF p = "p0" THEN 1 ELSE -1]}

InitVideo == \E c \in BOOLEAN : InitWith(Handle("video", "2.1", c))
VideoNodes == {"ap1", "ap2"}
MergeNodes == {"ap1"}
VideoPos == {<<[x |-> 1, y |-> 2]>>}
VideoNeg == {None}
VideoFrames == {0, MaxFrames - 1}
VideoImages == Images({MaxFrames})
VideoSegInputs == SegInputs({MaxFrames}, {Some(<<[x |-> 1, y |-> 2]>>)}, {None}, {FALSE})
NextVideo ==
    \/ Sam2VideoSegmentationAddPoints_segment(VideoNodes, VideoPos, VideoNeg, VideoFrames,
                                              VideoImages)
    \/ Sam2VideoSegmentation_segment(OneMap)
    \/ Return
SpecVideo == InitVideo /\ [][NextVideo]_vars

(***************************************************************************)
(* Re-initialisation: an add-points node and the image-segmentation node   *)
(* in video mode, each keeping the state it initialized.                   *)
(***************************************************************************)
NextReinit ==
    \/ Sam2VideoSegmentationAddPoints_segment(MergeNodes, VideoPos, VideoNeg, VideoFrames,
                                              VideoImages)
    \/ Sam2Segmentation_segment(VideoSegInputs, PredOuts, OneMap)
    \/ Return
SpecReinit == InitVideo /\ [][NextReinit]_vars

(***************************************************************************)
(* One add-points node and the propagate node, on a handle whose placement *)
(* succeeds, with every combination of logits the network may produce.     *)
(***************************************************************************)
InitMerge == InitWith(Handle("video", "2.1", FALSE))
MergeFrames == {0, MaxFrames}
MergeImages == Images(1..MaxFrames)
NextMerge ==
    \/ Sam2VideoSegmentationAddPoints_segment(MergeNodes, VideoPos, VideoNeg, MergeFrames,
                                              MergeImages)
    \/ Sam2VideoSegmentation_segment(LogitMaps)
    \/ Return
SpecMerge == InitMerge /\ [][NextMerge]_vars

(***************************************************************************)
(* The image-segmentation node on its own, for every kind of handle.       *)
(***************************************************************************)
InitImage ==
    \E sg \in {"single_image", "video", "automaskgenerator"}, v \in {"2.0", "2.1"},
       c \in BOOLEAN : InitWith(Handle(sg, v, c))
ImageSegInputs ==
    SegInputs(1..MaxFrames, {None, Some(<<[x |-> 1, y |-> 2]>>)},
              {None, Some(<<[x |-> 3, y |-> 4]>>)}, BOOLEAN)
NextImage ==
    \/ Sam2Segmentation_segment(ImageSegInputs, PredOuts, OneMap)
    \/ Return
SpecImage == InitImage /\ [][NextImage]_vars

\* the image-segmentation node with as many negative points as positive
\* ones, and with more
CountPos == {Some(<<[x |-> 1, y |-> 2]>>)}
CountNeg == {Some(<<[x |-> 3, y |-> 4]>>),
             Some(<<[x |-> 3, y |-> 4], [x |-> 1, y |-> 2]>>)}
CountSegInputs == SegInputs(1..MaxFrames, CountPos, CountNeg, {FALSE})
NextCount ==
    \/ Sam2Segmentation_segment(CountSegInputs, PredOuts, OneMap)
    \/ Return
SpecCount == InitImage /\ [][NextCount]_vars

(***************************************************************************)
(* Prompt construction on its own: the inputs are drawn from bounded sets  *)
(* and both builders are applied to them.                                  *)
(***************************************************************************)
PosLists == SeqsUpTo(Points, 1, MaxPts)
NegLists == {None} \cup {Some(v) : v \in SeqsUpTo(Points, 0, MaxPts + 1)}

BuildPrompt ==
    /\ Idle
    /\ \E P \in PosLists, N \in NegLists, io \in BOOLEAN :
        /\ call' = [op |-> "prompt", P |-> P, N |-> N, individual_objects |-> io]
        /\ res' = [seg |-> SegPrompt(P, N, io), add |-> AddPointsPrompt(P, N)]
        /\ UNCHANGED <<handle, placement, heap, held, refs, ops>>

InitPrompt == InitWith(Handle("single_image", "2.1", TRUE)) /\ placement = "offload"
NextPrompt == BuildPrompt \/ Return
SpecPrompt == InitPrompt /\ [][NextPrompt]_vars

(***************************************************************************)
(* Sam2AutoSegmentation.segment: automatic mask generation.  The generator *)
(* is the library's; what it yields for an image is an input of the step.  *)
(* The hyperparameters assigned at lines 643-655 only configure the        *)
(* generator and are not part of the state.                                *)
(***************************************************************************)
M11 == [p \in Pixels |-> TRUE]
\* the proposals model.generate can yield: a mask ('segmentation') and its 'bbox'
Proposals == {[segmentation |-> M10, bbox |-> <<0, 0, 1, 1>>],
              [segmentation |-> M01, bbox |-> <<1, 1, 2, 2>>],
              [segmentation |-> M11, bbox |-> <<0, 0, 2, 2>>]}
GenerateOuts == SeqsUpTo(Proposals, 0, MaxProposals)

AutoRes(status, masks, images, bbox, generated) ==
    [status |-> status, masks |-> masks, images |-> images, bbox |-> bbox,
     generated |-> generated]

\* the mutant of AutoCombine: the last proposal's mask instead of the OR
AutoCombineLast(mask_list) ==
    [p \in Pixels |->
        IF Len(mask_list) > 0 /\ mask_list[Len(mask_list)][p] THEN 1 ELSE 0]

\* lines 680-686: combined_mask = np.zeros((H, W)), then for each mask
\* combined_mask = np.logical_or(combined_mask, mask).astype(np.uint8)
AutoCombine(mask_list) ==
    LET RECURSIVE or_(_, _)
        or_(c, k) == IF k > Len(mask_list) THEN c
                     ELSE or_([p \in Pixels |->
                                 IF c[p] # 0 \/ mask_list[k][p] THEN 1 ELSE 0], k + 1)
    IN or_([p \in Pixels |-> 0], 1)

\* lines 677-695: the overlay image; a pixel shows the colour of the last mask
\* that covers it (the index of that mask stands for its random colour), 0 if none
AutoOverlay(mask_list) ==
    LET RECURSIVE paint(_, _)
        paint(img, k) == IF k > Len(mask_list) THEN img
                         ELSE paint([p \in Pixels |->
                                       IF mask_list[k][p] THEN k ELSE img[p]], k + 1)
    IN paint([p \in Pixels |-> 0], 1)

\* the mutant of BboxList: the boxes are added to those of the earlier images
BboxListExtend(bbox_list, result_dict) ==
    bbox_list \o [k \in 1..Len(result_dict) |-> result_dict[k].bbox]

\* line 671: bbox_list = [item['bbox'] for item in result_dict]
BboxList(bbox_list, result_dict) ==
    [k \in 1..Len(result_dict) |-> result_dict[k].bbox]

\* lines 668-697: the loop over the images of the batch
RECURSIVE AutoLoop(_, _, _)
AutoLoop(gen, i, acc) ==
    IF i > Len(gen) THEN acc
    ELSE LET result_dict == gen[i]
             mask_list == [k \in 1..Len(result_dict) |-> result_dict[k].segmentation]
         IN AutoLoop(gen, i + 1,
                     [out_list |-> Append(acc.out_list, AutoCombine(mask_list)),
                      segment_out_list |->
                          Append(acc.segment_out_list, AutoOverlay(mask_list)),
                      bbox_list |-> BboxList(acc.bbox_list, result_dict)])

\* lines 631-711; model.predictor.model is the module itself, so .to is bare
\* and works for every handle
AutoRun(in, gen) ==
    LET loop == AutoLoop(gen, 1, [out_list |-> <<>>, segment_out_list |-> <<>>,
                                  bbox_list |-> <<>>])
        generate_ops == [k \in 1..in.B |-> Event("generate", k - 1, "compute")]
        off_ops == IF in.keep_model_loaded THEN <<>>
                   ELSE <<Event("predictor.model.to", 0, "offload")>>
    IN IF handle.segmentor # "automaskgenerator"
       THEN Out(placement, heap, held, refs, <<>>,
                AutoRes("ValueError", <<>>, <<>>, <<>>, <<>>))
       ELSE Out(IF in.keep_model_loaded THEN "compute" ELSE "offload",
                heap, held, refs,
                <<Event("predictor.model.to", 0, "compute")>> \o generate_ops \o off_ops,
                AutoRes("ok", loop.out_list, loop.segment_out_list, loop.bbox_list, gen))

\* one call of the node on a batch of B images
Sam2AutoSegmentation_segment(Bs, Gens) ==
    /\ Idle
    /\ \E B \in Bs, keep \in BOOLEAN :
        \E gen \in (IF handle.segmentor = "automaskgenerator"
                    THEN [1..B -> Gens] ELSE {<<>>}) :
            LET in == [B |-> B, keep_model_loaded |-> keep]
            IN /\ call' = [op |-> "auto", in |-> in]
               /\ Apply(AutoRun(in, gen))

AutoBatches == 1..MaxFrames
InitAuto ==
    \E sg \in {"automaskgenerator", "single_image"} : InitWith(Handle(sg, "2.1", FALSE))
NextAuto ==
    \/ Sam2AutoSegmentation_segment(AutoBatches, GenerateOuts)
    \/ Return
SpecAuto == InitAuto /\ [][NextAuto]_vars

(***************************************************************************)
(* Florence2toCoordinates.segment: centers and boxes picked by index from  *)
(* the detections of an upstream node.  data is a list, one entry per      *)
(* image, of lists of boxes (min_x, min_y, max_x, max_y); index is the     *)
(* text of the widget, here the list of its comma-separated tokens.        *)
(***************************************************************************)
DetBoxes == {<<0, 0, 1, 1>>, <<1, 1, 2, 4>>}
Detections == SeqsUpTo(SeqsUpTo(DetBoxes, 0, MaxDetections), 0, MaxFrames)

Digits == <<"0", "1", "2", "3", "4", "5">>
IndexTokens == {"-1", "x"} \cup {Digits[k + 1] : k \in 0..MaxDetections}
\* the empty list stands for the empty text
IndexTexts == SeqsUpTo(IndexTokens, 0, 2)

\* int(i): the number a token denotes, and whether it denotes one
IsInt(tok) == tok = "-1" \/ \E k \in 1..Len(Digits) : Digits[k] = tok
int_(tok) == IF tok = "-1" THEN -1 ELSE (CHOOSE k \in 1..Len(Digits) : Digits[k] = tok) - 1

FlorRes(status, center_points, bboxes) ==
    [status |-> status, center_points |-> center_points, bboxes |-> bboxes]

\* lines 143-146: the requested indices, all of data[0] for an empty text
Indexes(data, index) ==
    IF Len(index) > 0 THEN [k \in 1..Len(index) |-> int_(index[k])]
    ELSE [k \in 1..Len(data[1]) |-> k - 1]

\* lines 155-157 and 165-167: int((min + max) / 2) for each axis
Center(bbox) == [x |-> (bbox[1] + bbox[3]) \div 2, y |-> (bbox[2] + bbox[4]) \div 2]

\* 0 <= idx < len(data[0])
InData(data, idx) == 0 <= idx /\ idx < Len(data[1])

\* lines 151-160, batch mode: an index inside data[0] is taken from every
\* image (data[i][idx] raises IndexError for an image with fewer boxes), an
\* index outside data[0] is passed over
BatchPick(data, indexes, k, acc) ==
    LET RECURSIVE go(_, _)
        go(j, a) ==
            IF j > Len(indexes) \/ a.status # "ok" THEN a
            ELSE IF ~InData(data, indexes[j]) THEN go(j + 1, a)
            ELSE IF \E i \in 1..Len(data) : ~(indexes[j] < Len(data[i]))
                 THEN [a EXCEPT !.status = "IndexError"]
            ELSE go(j + 1,
                    [status |-> "ok",
                     center_points |-> a.center_points \o
                         [i \in 1..Len(data) |-> Center(data[i][indexes[j] + 1])],
                     bboxes |-> a.bboxes \o
                         [i \in 1..Len(data) |-> data[i][indexes[j] + 1]]])
    IN go(k, acc)

\* lines 161-171, non-batch mode: an index inside data[0] is taken from the
\* first image, an index outside raises ValueError
RECURSIVE SinglePick(_, _, _, _)
SinglePick(data, indexes, k, acc) ==
    IF k > Len(indexes) THEN acc
    ELSE IF ~InData(data, indexes[k]) THEN [acc EXCEPT !.status = "ValueError"]
    ELSE SinglePick(data, indexes, k + 1,
                    [status |-> "ok",
                     center_points |-> Append(acc.center_points,
                                              Center(data[1][indexes[k] + 1])),
                     bboxes |-> Append(acc.bboxes, data[1][indexes[k] + 1])])

\* lines 130-175
FlorenceRun(data, index, batch) ==
    LET start == FlorRes("ok", <<>>, <<>>)
    IN IF Len(data) = 0 THEN FlorRes("ok", <<[x |-> 0, y |-> 0]>>, <<>>)
       ELSE IF \E k \in 1..Len(index) : ~IsInt(index[k]) THEN FlorRes("ValueError", <<>>, <<>>)
       ELSE IF batch THEN BatchPick(data, Indexes(data, index), 1, start)
       ELSE SinglePick(data, Indexes(data, index), 1, start)

\* one call of the node; it touches neither the model nor any state
Florence2toCoordinates_segment(DataSet, IndexSet) ==
    /\ Idle
    /\ \E data \in DataSet, index \in IndexSet, batch \in BOOLEAN :
        /\ call' = [op |-> "florence", data |-> data, index |-> index, batch |-> batch]
        /\ Apply(Out(placement, heap, held, refs, <<>>, FlorenceRun(data, index, batch)))

NextFlorence ==
    \/ Florence2toCoordinates_segment(Detections, IndexTexts)
    \/ Return
SpecFlorence == InitPrompt /\ [][NextFlorence]_vars

(***************************************************************************)
(* Properties of prompt construction (SpecPrompt).                         *)
(***************************************************************************)
\* the prompt described for individual_objects = false: P followed by N,
\* labelled with |P| ones followed by |N| zeros
FlatCoords(P, N) == ParseCoords(P) \o (IF N.none THEN <<>> ELSE ParseCoords(N.v))
FlatLabels(P, N) ==
    [i \in 1..(Len(P) + (IF N.none THEN 0 ELSE Len(N.v))) |-> IF i <= Len(P) THEN 1 ELSE 0]
IsFlatPrompt(pr, P, N) ==
    /\ pr.status = "ok"
    /\ pr.coords.data = FlatCoords(P, N)
    /\ pr.labels.data = FlatLabels(P, N)

\* C9: with individual_objects = false, for every non-empty P and every N
\* (absent, empty or non-empty) both builders succeed and give P followed by N
\* with labels 1 for the points of P and 0 for the points of N
C9_FlatPromptForEveryN ==
    call.op = "prompt" /\ ~call.individual_objects
        => /\ IsFlatPrompt(res.seg, call.P, call.N)
           /\ IsFlatPrompt(res.add, call.P, call.N)

\* what does hold for C9: the same statement for N absent or non-empty
C9_FlatPromptForNonEmptyN ==
    call.op = "prompt" /\ ~call.individual_objects /\ (call.N.none \/ Len(call.N.v) > 0)
        => /\ IsFlatPrompt(res.seg, call.P, call.N)
           /\ IsFlatPrompt(res.add, call.P, call.N)

\* the prompt described for individual_objects = true: group i holds P[i] and
\* then N[i], or the first negative point where N has no i-th point
GroupOf(P, N, i) == <<ParseCoords(P)[i], ParseCoords(N)[IF i <= Len(N) THEN i ELSE 1]>>
IsGroupedPrompt(pr, P, N) ==
    /\ pr.status = "ok"
    /\ pr.coords.shape = <<Len(P), 2, 2>>
    /\ pr.coords.data = [i \in 1..Len(P) |-> GroupOf(P, N, i)]
    /\ pr.labels.data = [i \in 1..Len(P) |-> <<1, 0>>]

PropagatedState == heap[call.ref.inference_state]
\* the positions of the calls of f in a list of events
EventsOf(o, f) == {k \in 1..Len(o) : o[k].f = f}
\* the node instance a call ran on
NodeOf(c) == IF c.op = "segment" THEN "seg" ELSE c.node
\* q is a prompt made from the inputs of the call c
PromptOfCall(c, q) ==
    IF c.op = "segment"
    THEN q.frame_idx = 0 /\ q.obj_id \in SegObjs(c.in)
    ELSE q = PromptRec(c.frame_index, c.object_index, AddPointsPrompt(c.P, c.N).coords,
                       AddPointsPrompt(c.P, c.N).labels, <<>>)

\* C1: propagate on a state of N frames that has been prompted, on whatever
\* frames and objects, returns exactly N masks, one per frame, in ascending
\* frame order
C1_OneMaskPerFrame ==
    call.op = "propagate" /\ Len(PropagatedState.prompts) > 0 /\ ~handle.composite
        => /\ res.status = "ok"
           /\ Len(res.masks) = PropagatedState.num_frames
           /\ res.frames = [k \in 1..PropagatedState.num_frames |-> k - 1]

\* propagate returned a mask for every frame of a state prompted on its last
\* frame only
C1_UnpromptedFrameWitness ==
    /\ call.op = "propagate" /\ res.status = "ok"
    /\ PropagatedState.num_frames > 1
    /\ Len(res.masks) = PropagatedState.num_frames
    /\ Len(PropagatedState.prompts) > 0
    /\ \A i \in 1..Len(PropagatedState.prompts) :
          PropagatedState.prompts[i].frame_idx = PropagatedState.num_frames - 1

\* pixel p of the k-th returned mask is set exactly when some object yielded
\* for that frame has a logit above 0 at p
MaskIsOrOfThresholds ==
    /\ Len(res.masks) = Len(res.gen)
    /\ \A k \in 1..Len(res.masks), p \in Pixels :
          (res.masks[k][p] = 1) <=>
              \E i \in 1..Len(res.gen[k].logits) : res.gen[k].logits[i][p] > 0

\* C2: propagate returns, for every frame, the mask that is set at p exactly
\* when a tracked object has a logit above 0.0 at p; a frame with no tracked
\* object gets the all-false mask
C2_CombinedMaskIsOr ==
    call.op = "propagate" => res.status = "ok" /\ MaskIsOrOfThresholds

\* what does hold for C2: the same statement for a state that tracks an object
C2_CombinedMaskIsOrWhenTracked ==
    call.op = "propagate" /\ Len(PropagatedState.prompts) > 0
        => res.status = "ok" /\ MaskIsOrOfThresholds

\* C3: when a node that holds a state initializes a new one, reset_state is
\* called on the held state before init_state, the node then holds the new
\* state only, and the new state has no prompt but those of this call
C3_ResetBeforeInit ==
    [][\A k \in EventsOf(ops', "init_state") :
          LET node == NodeOf(call')
              old == held[node]
              new == ops'[k].sid
          IN /\ new = Len(heap) + 1
             /\ Len(heap') = new
             /\ held'[node] = new
             /\ old # 0 =>
                   /\ \E j \in 1..(k - 1) : ops'[j] = Event("reset_state", old, "")
                   /\ heap'[old].prompts = <<>>
             /\ \A i \in 1..Len(heap'[new].prompts) :
                   PromptOfCall(call', heap'[new].prompts[i])]_vars

\* an add-points call without a previous state, on a node that held a state:
\* it reset the held state, then initialized the one it returned
C3_ReinitWitness ==
    /\ call.op = "add_points" /\ call.prev.none /\ res.status = "ok"
    /\ \E j, k \in 1..Len(ops) :
          /\ j < k
          /\ ops[j].f = "reset_state"
          /\ ops[k].f = "init_state"
          /\ ops[j].sid # ops[k].sid
          /\ held[call.node] = ops[k].sid

\* C4: add-points with a previous state neither resets nor initializes; it adds
\* its prompt to that state, leaves the other states alone and returns the
\* reference it was given; propagate yields every object prompted so far
C4_ChainedAddKeepsState ==
    [][/\ call'.op = "add_points" /\ ~call'.prev.none =>
            LET sid == call'.prev.v.inference_state
            IN /\ EventsOf(ops', "reset_state") = {}
               /\ EventsOf(ops', "init_state") = {}
               /\ Len(heap') = Len(heap)
               /\ res'.status = "ok" =>
                     /\ \E q \in {heap'[sid].prompts[Len(heap'[sid].prompts)]} :
                           /\ PromptOfCall(call', q)
                           /\ heap'[sid].prompts = Append(heap[sid].prompts, q)
                     /\ \A s \in 1..Len(heap) : s # sid => heap'[s] = heap[s]
                     /\ res'.ref = call'.prev.v
                     /\ held'[call'.node] = sid
       /\ call'.op = "propagate" /\ res'.status = "ok" =>
            \A k \in 1..Len(res'.gen) :
               {res'.gen[k].obj_ids[i] : i \in 1..Len(res'.gen[k].obj_ids)}
                  = TrackedSet(heap[call'.ref.inference_state])]_vars

\* the second add-points call of a chain: the state holds both prompts
C4_ChainWitness ==
    /\ call.op = "add_points" /\ ~call.prev.none /\ res.status = "ok"
    /\ res.ref = call.prev.v
    /\ Len(heap[res.ref.inference_state].prompts) = 2

\* C5: propagate leaves the states, their prompts and the states the nodes hold
\* as they were; it calls neither reset_state nor init_state
C5_PropagateKeepsState ==
    [][call'.op = "propagate" =>
          /\ heap' = heap
          /\ held' = held
          /\ refs' = refs
          /\ EventsOf(ops', "reset_state") = {}
          /\ EventsOf(ops', "init_state") = {}]_vars

\* propagate has returned masks for a state holding the prompts of two objects
C5_PropagatedWitness ==
    /\ call.op = "propagate" /\ res.status = "ok"
    /\ Len(PropagatedState.prompts) = 2
    /\ Cardinality(TrackedSet(PropagatedState)) = 2

\* C7: in every operation, a placement that raises on the outer handle is
\* retried on the inner model and the caller sees no error
C7_FallbackInEveryOperation ==
    /\ \A k \in EventsOf(ops, "model.to") :
          ops[k].dev = "raise" => k < Len(ops) /\ ops[k + 1].f = "model.model.to"
    /\ call.op # "none" /\ handle.composite => res.status # "AttributeError"

\* what does hold for C7: the same statement for the image-segmentation node
C7_FallbackInImageSegmentation ==
    call.op = "segment" =>
        /\ \A k \in EventsOf(ops, "model.to") :
              ops[k].dev = "raise" => k < Len(ops) /\ ops[k + 1].f = "model.model.to"
        /\ res.status # "AttributeError"

(***************************************************************************)
(* Properties of the image-segmentation node (SpecImage).                  *)
(***************************************************************************)
\* every predict of the call ran with the weights on the compute device, and
\* a call that returned left them where keep_model_loaded says
PlacementAsRequested ==
    /\ \A i \in 1..Len(res.predicts) : res.predicts[i].dev = "compute"
    /\ res.status = "ok" =>
          placement = IF call.in.keep_model_loaded THEN "compute" ELSE "offload"

\* C6 as stated: an enabled call fails with a user error for an
\* automaskgenerator or video handle, and returns masks for single_image only
C6_FailsUnlessSingleImage ==
    call.op = "segment" /\ call.in.enabled
        => /\ handle.segmentor \in {"automaskgenerator", "video"}
                => res.status = "ValueError"
           /\ res.status = "ok" => handle.segmentor = "single_image"

\* C6 amended: an enabled call fails with a user error, before it touches the
\* model, for an automaskgenerator handle; it returns masks for single_image
\* and video handles only
C6_FailsForAutomaskgenerator ==
    call.op = "segment" /\ call.in.enabled
        => /\ handle.segmentor = "automaskgenerator"
                => res.status = "ValueError" /\ ops = <<>> /\ res.predicts = <<>>
           /\ res.status = "ok" => handle.segmentor \in {"single_image", "video"}

\* an enabled call on an automaskgenerator handle has failed
C6_AutomaskWitness ==
    /\ call.op = "segment" /\ call.in.enabled
    /\ handle.segmentor = "automaskgenerator"
    /\ res.status = "ValueError"

\* C8 as stated: for every call, the weights are on the compute device during
\* every predict, and on return they are on the offload device when
\* keep_model_loaded is false and on the compute device when it is true
C8_PlacementEveryCall == call.op = "segment" => PlacementAsRequested

\* C8 amended: the same for every enabled call
C8_PlacementEnabledCall == call.op = "segment" /\ call.in.enabled => PlacementAsRequested

\* an enabled call on a composite handle has run predict for a batch and
\* returned with the weights offloaded
C8_OffloadWitness ==
    /\ call.op = "segment" /\ call.in.enabled /\ ~call.in.keep_model_loaded
    /\ handle.composite /\ res.status = "ok"
    /\ Len(res.predicts) > 1
    /\ placement = "offload"

\* the call gives positive points and more negative points than positive ones
MoreNegatives(in) ==
    /\ in.individual_objects /\ ~in.P.none /\ ~in.N.none
    /\ Len(in.N.v) > Len(in.P.v)

\* the call failed before it did anything: nothing was asked of the model and
\* the weights, the states and the states held by the nodes are as they were
FailedUntouched ==
    /\ ops' = <<>>
    /\ res'.predicts = <<>>
    /\ placement' = placement
    /\ heap' = heap
    /\ held' = held

\* C11 as stated: with individual_objects = true and |N| > |P| every call
\* fails with a configuration error, before the model is placed, before any
\* predict and before any state is reset or created
C11_MoreNegativesFailsEveryCall ==
    [][call'.op = "segment" /\ MoreNegatives(call'.in) =>
          /\ res'.status \in {"AssertionError", "ValueError"}
          /\ FailedUntouched]_vars

\* C11 amended: the same for every enabled call; the error is the assertion's
\* unless the mode check has already rejected the handle
C11_MoreNegativesFails ==
    [][call'.op = "segment" /\ MoreNegatives(call'.in) /\ call'.in.enabled =>
          /\ res'.status =
                IF ModeCheck(handle, call'.in.bboxes) = "ok" THEN "AssertionError"
                ELSE "ValueError"
          /\ FailedUntouched]_vars

\* the assertion has failed on a video handle whose node holds a state, and
\* on a single_image handle
C11_AssertionWitness ==
    /\ call.op = "segment" /\ MoreNegatives(call.in) /\ call.in.enabled
    /\ res.status = "AssertionError"
    /\ handle.segmentor = "video"
    /\ held["seg"] # 0

\* a successful single_image call without individual_objects
SingleImageOk ==
    /\ call.op = "segment" /\ call.in.enabled
    /\ handle.segmentor = "single_image"
    /\ ~call.in.individual_objects
    /\ res.status = "ok"

\* mask m, as the node returns it, is candidate j of predict's output
IsCandidate(m, out, j) == \A p \in Pixels : (m[p] = 1) <=> out.masks[j][p]

\* C12: in single_image mode without individual_objects the output has one
\* mask per image, in the order of the images, and for an image for which
\* predict returned scored candidates that mask is a candidate whose score is
\* the maximum of the scores
C12_BestCandidatePerImage ==
    SingleImageOk =>
        /\ Len(res.masks) = call.in.B
        /\ Len(res.predicts) = call.in.B
        /\ \A i \in 1..call.in.B :
              LET out == res.predicts[i].out
              IN /\ res.predicts[i].i = i - 1
                 /\ out.nd = 3 =>
                      \E j \in 1..Len(out.scores) :
                          /\ \A k \in 1..Len(out.scores) : out.scores[k] <= out.scores[j]
                          /\ IsCandidate(res.masks[i], out, j)

\* a batch of two images whose best candidates differ, the first image's best
\* candidate not being the first one
C12_BatchWitness ==
    /\ SingleImageOk
    /\ call.in.B = 2
    /\ res.predicts[1].out.scores = <<2, 9>>
    /\ res.predicts[2].out.scores = <<9, 5, 2>>
    /\ res.masks[1] # res.masks[2]

(***************************************************************************)
(* Properties of automatic mask generation (SpecAuto).                     *)
(***************************************************************************)
AutoOk == call.op = "auto" /\ res.status = "ok"

\* C13: combined mask i is the OR of exactly the proposal masks generated for
\* image i, all-false when there are none, whatever was generated for the
\* other images; the output has one combined mask per image in input order
C13_CombinedIsOrOfOwnProposals ==
    AutoOk =>
        /\ Len(res.masks) = call.in.B
        /\ \A i \in 1..call.in.B : \A p \in Pixels :
              (res.masks[i][p] = 1) <=>
                  \E k \in 1..Len(res.generated[i]) : res.generated[i][k].segmentation[p]
        /\ \A i \in 1..call.in.B : \A p \in Pixels : res.masks[i][p] \in {0, 1}

\* a batch whose first image has no proposal and whose second has two
\* proposals that do not overlap, the first not covering the second
C13_BatchWitness ==
    /\ AutoOk
    /\ call.in.B = 2
    /\ res.generated[1] = <<>>
    /\ Len(res.generated[2]) = 2
    /\ res.generated[2][1].segmentation = M10
    /\ res.generated[2][2].segmentation = M01
    /\ res.masks[1] = [p \in Pixels |-> 0]
    /\ res.masks[2] = [p \in Pixels |-> 1]

\* C14: the returned bounding-box list is the list of the boxes of the
\* proposals of the last image of the batch, in generation order; the boxes
\* of earlier images are not in it
C14_BboxOfLastImage ==
    AutoOk =>
        LET last == res.generated[call.in.B]
        IN res.bbox = [k \in 1..Len(last) |-> last[k].bbox]

\* a batch of two images: the first has proposals whose boxes are not returned
C14_EarlierBoxesDropped ==
    /\ AutoOk
    /\ call.in.B = 2
    /\ Len(res.generated[1]) = 2
    /\ Len(res.generated[2]) = 1
    /\ res.generated[1][1].bbox # res.generated[2][1].bbox
    /\ res.generated[1][2].bbox # res.generated[2][1].bbox
    /\ Len(res.bbox) = 1

(***************************************************************************)
(* The model handle across the operations (SpecVideo).                     *)
(***************************************************************************)
\* the dict h has the key k with the value the dict g has for it
SameAttr(h, g, k) == k \in DOMAIN h /\ k \in DOMAIN g /\ h[k] = g[k]

\* an add-points call has returned a handle for chaining
ChainReturned == call.op = "add_points" /\ res.status = "ok"

\* C15: the handle's precision, device, segmentation mode and version tag
\* are never changed by an operation, and the handle add-points returns for
\* chaining carries the same four attributes as the handle it received
C15_HandleAttributesKept ==
    [][/\ handle' = handle
       /\ ChainReturned' =>
             \A k \in {"dtype", "device", "segmentor", "version"} :
                 SameAttr(res'.handle, handle', k)]_vars

\* what holds of the returned handle: precision, device and mode are those of
\* the handle received, and the handle received is not changed
C15_ThreeAttributesKept ==
    [][/\ handle' = handle
       /\ ChainReturned' =>
             \A k \in {"dtype", "device", "segmentor"} :
                 SameAttr(res'.handle, handle', k)]_vars

\* the returned handle has no version tag
C15_VersionDropped ==
    /\ ChainReturned
    /\ "version" \in DOMAIN handle
    /\ "version" \notin DOMAIN res.handle

(***************************************************************************)
(* Properties of the coordinate extraction (SpecFlorence).                 *)
(***************************************************************************)
\* the call has detections and asks for an index that data[0] does not have
AbsentIndexRequested ==
    /\ call.op = "florence"
    /\ Len(call.data) > 0
    /\ \A k \in 1..Len(call.index) : IsInt(call.index[k])
    /\ \E k \in 1..Len(call.index) : ~InData(call.data, int_(call.index[k]))

\* C16: a requested index that is absent from the detection data makes the
\* call fail, in batch and in non-batch mode; no output is returned in which
\* a requested index was passed over
C16_AbsentIndexFails == AbsentIndexRequested => res.status # "ok"

\* what holds: the same in non-batch mode
C16_AbsentIndexFailsNonBatch ==
    AbsentIndexRequested /\ ~call.batch => res.status = "ValueError"

\* a batch-mode call that returned the boxes of index 0 and passed over the
\* absent index it was also asked for
C16_SkippedInBatch ==
    /\ AbsentIndexRequested
    /\ call.batch
    /\ res.status = "ok"
    /\ Len(call.index) = 2
    /\ Len(res.bboxes) = Len(call.data)
    /\ Len(call.data) = 2

(***************************************************************************)
(* Box prompts in video mode of the image-segmentation node (SpecImage).   *)
(***************************************************************************)
\* an enabled call on a video handle that supplies box prompts
VideoBoxCall(c) ==
    /\ c.op = "segment" /\ c.in.enabled
    /\ handle.segmentor = "video"
    /\ ~c.in.bboxes.none

\* the call failed with the states as they were: the state the node held is
\* neither reset nor replaced, no state is initialized, no prompt is added
FailedKeepingState ==
    /\ res'.status \in {"ValueError", "AssertionError"}
    /\ heap' = heap
    /\ held' = held
    /\ \A k \in 1..Len(ops') :
          ops'[k].f \notin {"reset_state", "init_state", "add_new_points_or_box"}

\* C17: in video mode a call with box prompts on a model that is not 2.1, or
\* with box prompts together with individual_objects, fails with the node's
\* state untouched
C17_BoxErrorsKeepState ==
    [][VideoBoxCall(call') /\ (handle.version # "2.1" \/ call'.in.individual_objects)
           => FailedKeepingState]_vars

\* what holds: the same for box prompts on a model that is not 2.1
C17_VersionErrorKeepsState ==
    [][VideoBoxCall(call') /\ handle.version # "2.1" => FailedKeepingState]_vars

\* box prompts with individual_objects on a 2.1 model: the call has failed
\* after resetting the state the node held and initializing a new one
C17_StateReplacedBeforeError ==
    /\ VideoBoxCall(call) /\ call.in.individual_objects
    /\ handle.version = "2.1"
    /\ res.status = "ValueError"
    /\ EventsOf(ops, "reset_state") # {}
    /\ EventsOf(ops, "init_state") # {}

(***************************************************************************)
(* Box prompts for a batch in single_image mode (SpecImage).               *)
(***************************************************************************)
\* np.array of the box list supplied for one image
BoxArray(bbox_list) == [shape |-> <<Len(bbox_list), 4>>, data |-> bbox_list]

\* an enabled single_image call on a batch with one box list per image
BatchBoxCall ==
    /\ call.op = "segment" /\ call.in.enabled
    /\ handle.segmentor = "single_image"
    /\ call.in.B > 1
    /\ ~call.in.bboxes.none

\* C18: for a batch of B > 1 images with one box list per image, the predict
\* call for image i receives the box list supplied for image i, for both
\* values of individual_objects
C18_PredictGetsOwnBoxes ==
    BatchBoxCall =>
        \A k \in 1..Len(res.predicts) :
            res.predicts[k].box = BoxArray(call.in.bboxes.v[res.predicts[k].i + 1])

\* with individual_objects the predict call for the first image has received
\* the boxes of the whole batch
C18_WholeCollectionPassed ==
    /\ BatchBoxCall /\ call.in.individual_objects
    /\ Len(res.predicts) > 0
    /\ res.predicts[1].box.shape = <<call.in.B, 1, 4>>

\* without individual_objects the predict call for the first image has
\* received the boxes of the last image, and the call has failed at the next image
C18_LastImageBoxesPassed ==
    /\ BatchBoxCall /\ ~call.in.individual_objects
    /\ Len(res.predicts) = 1
    /\ call.in.bboxes.v[1] # call.in.bboxes.v[call.in.B]
    /\ res.predicts[1].box = BoxArray(call.in.bboxes.v[call.in.B])
    /\ res.status = "IndexError"

====
